---- MODULE Spec2Model ----
(***************************************************************************)
(* Opero TTS Server (src/tts_server/app.py): a pyttsx3 engine wrapped by   *)
(* TTSEngine (one Lock, lazily initialised handle) and the FastAPI         *)
(* handlers /speak, /speak/base64, /configure, /voices and /status.        *)
(*                                                                         *)
(* Every request is a process.  A handler is cut at the points where it    *)
(* enters TTSEngine: each of set_voice, set_rate, get_voices is one        *)
(* `with self._lock` block and is one step; speak_to_file holds the lock   *)
(* from its acquisition (lazy initialize, mkstemp) until runAndWait        *)
(* returns or raises, which are two steps.  Requests interleave at these   *)
(* points, which is the concurrency the Lock of TTSEngine is there for;    *)
(* the runs in which every handler finishes before the next one begins     *)
(* are among the behaviours.                                               *)
(*                                                                         *)
(* The engine starts without a handle.  The lifespan startup initializes   *)
(* it before the first request; an application served without lifespan     *)
(* events initializes it lazily in speak_to_file or get_voices.            *)
(*                                                                         *)
(* Strings whose characters matter (voice names, request texts) are        *)
(* sequences of characters.  The optional fields of a request body are     *)
(* <<>> (None) or <<x>>.                                                   *)
(***************************************************************************)
EXTENDS Integers, Sequences, FiniteSets, TLC

\* ---------------------------------------------------------------- bounds
NReq == 2
NPaths == 2

Reqs == 1..NReq
Paths == 1..NPaths

\* ------------------------------------------------------ program constants
MAX_TEXT == 5000
DEFAULT_RATE == 175
DEFAULT_VOLUME == 90
STATUS_HEAD == 5

\* ------------------------------------------------------- optional values
None == <<>>
Some(x) == <<x>>

\* Python truthiness of an Optional[int]: None and 0 are false.
RateGiven(rate) == rate # None /\ rate[1] # 0

\* Python truthiness of an Optional[str]: None and "" are false.
VoiceGiven(voice_id) == voice_id # None /\ voice_id[1] # ""

\* ------------------------------------------------------------ characters
Whitespace == {" "}

Lower(c) ==
  CASE c = "A" -> "a" [] c = "D" -> "d" [] c = "F" -> "f" [] c = "Z" -> "z"
    [] OTHER -> c

lower(s) == [i \in 1..Len(s) |-> Lower(s[i])]

\* Python `sub in s`
Contains(sub, s) ==
  \E k \in 0..(Len(s) - Len(sub)) : \A i \in 1..Len(sub) : s[k + i] = sub[i]

FEMALE == <<"f", "e", "m", "a", "l", "e">>
ZIRA == <<"z", "i", "r", "a">>

\* the test of initialize() for the preferred voice
PreferredVoice(name) == Contains(FEMALE, lower(name)) \/ Contains(ZIRA, lower(name))

\* the gender tag computed by get_voices()
Gender(name) == IF Contains(FEMALE, lower(name)) THEN "female" ELSE "male"

\* ----------------------------------------------------------------- texts
Rep(c, n) == [i \in 1..n |-> c]

RECURSIVE LStrip(_)
LStrip(s) ==
  IF s = <<>> THEN <<>>
  ELSE IF Head(s) \in Whitespace THEN LStrip(Tail(s)) ELSE s

RECURSIVE RStrip(_)
RStrip(s) ==
  IF s = <<>> THEN <<>>
  ELSE IF s[Len(s)] \in Whitespace THEN RStrip(SubSeq(s, 1, Len(s) - 1)) ELSE s

\* Python str.strip()
strip(s) == RStrip(LStrip(s))

\* The request texts the model sends, by name.
TextIds == {"empty", "blank", "a", "b", "max", "over", "padded"}

TextOf(id) ==
  CASE id = "empty" -> <<>>
    [] id = "blank" -> <<" ", " ">>
    [] id = "a" -> <<"a">>
    [] id = "b" -> <<" ", "b">>
    [] id = "max" -> Rep("a", MAX_TEXT)
    [] id = "over" -> Rep("a", MAX_TEXT + 1)
    [] id = "padded" -> <<" ">> \o Rep("a", MAX_TEXT - 1) \o <<" ">>

\* len(request.text) and len(request.text.strip()), tabulated per text
TextLen == [id \in TextIds |-> Len(TextOf(id))]
StripLen == [id \in TextIds |-> Len(strip(TextOf(id)))]

\* `not request.text or len(request.text.strip()) == 0`
TextMissing(t) == TextLen[t] = 0 \/ StripLen[t] = 0

TextTooLongLoose(t) == TextLen[t] > MAX_TEXT + 1
TextTooLongStrict(t) == TextLen[t] >= MAX_TEXT
\* `len(request.text) > 5000`
TextTooLong(t) == TextLen[t] > MAX_TEXT

\* ---------------------------------------------------------------- voices
\* Installed platform voices, as pyttsx3 reports them: id and name.
David == [id |-> "david", name |-> <<"D", "a", "v", "i", "d">>]
Zira == [id |-> "zira", name |-> <<"Z", "i", "r", "a">>]
Anna == [id |-> "anna", name |-> <<"A", "n", "n", "a", " ", "F", "e", "m", "a", "l", "e">>]

Platforms == { <<David>>, <<Zira, David, Anna>> }

VoiceIds == {None, Some(""), Some("zira")}
Rates == {None, Some(0), Some(150)}

VARIABLES
  installed,    \* getProperty('voices') (line 39): the platform's voices
  engine,       \* TTSEngine._engine (line 26): None or the engine's properties
  initialized,  \* TTSEngine._initialized (line 28)
  lock,         \* TTSEngine._lock (line 27): 0 when free, else the request holding it
  files,        \* the temporary directory (mkstemp, line 59): path -> file
  req,          \* the requests: handler position, body, response
  started,      \* the lifespan startup (line 116) has run
  lastRate,     \* the request that last passed its `if rate:` with a rate in its body
  lastVoice     \* the request that last passed its `if voice_id:` with a voice in its body

vars == <<installed, engine, initialized, lock, files, req, started, lastRate, lastVoice>>

Idle ==
  [pc |-> "idle", kind |-> "none", text |-> "empty", voice_id |-> None,
   rate |-> None, path |-> 0, status |-> 0, detail |-> "", body |-> <<>>]

Init ==
  /\ installed \in Platforms
  /\ engine = None
  /\ initialized = FALSE
  /\ lock = 0
  /\ files = <<>>
  /\ req = [r \in Reqs |-> Idle]
  /\ started = FALSE
  /\ lastRate = 0
  /\ lastVoice = 0

\* ------------------------------------------------------------- TTSEngine
RECURSIVE FirstPreferred(_)
FirstPreferred(voices) ==
  IF voices = <<>> THEN None
  ELSE IF PreferredVoice(Head(voices).name) THEN Some(Head(voices).id)
  ELSE FirstPreferred(Tail(voices))

\* pyttsx3.init() followed by the setProperty calls of initialize()
InitializedEngine(voices) ==
  LET pref == FirstPreferred(voices) IN
  [rate |-> DEFAULT_RATE, volume |-> DEFAULT_VOLUME,
   voice |-> IF pref = None THEN voices[1].id ELSE pref[1]]

\* TTSEngine.initialize(): the engine after the call
initialize(e, init, voices) == IF ~init THEN Some(InitializedEngine(voices)) ELSE e

\* `if not self._engine: self.initialize()`
EnsureEngine(e, init, voices) == IF e = None THEN initialize(e, init, voices) ELSE e

FreshPathsAny == Paths
\* tempfile.mkstemp: a name that does not exist yet
FreshPaths == Paths \ DOMAIN files

Put(f, p, v) == [q \in (DOMAIN f) \cup {p} |-> IF q = p THEN v ELSE f[q]]
Remove(f, p) == [q \in (DOMAIN f) \ {p} |-> f[q]]

Set(r, changes) == req' = [req EXCEPT ![r] = changes @@ req[r]]

SpeakKinds == {"speak", "base64"}

\* lifespan(): initialize() on startup, before the first request is served
Lifespan ==
  /\ ~started
  /\ \A r \in Reqs : req[r].pc = "idle"
  /\ started' = TRUE
  /\ engine' = initialize(engine, initialized, installed)
  /\ initialized' = TRUE
  /\ UNCHANGED <<installed, lock, files, req, lastRate, lastVoice>>

\* A request arrives in the next free slot.
CanArrive(r) == req[r].pc = "idle" /\ \A q \in Reqs : q < r => req[q].pc # "idle"

\* speak() / speak_base64(): validation of request.text
Speak(r) ==
  /\ CanArrive(r)
  /\ \E kind \in SpeakKinds, t \in TextIds, v \in VoiceIds, ra \in Rates :
       IF TextMissing(t)
         THEN Set(r, [pc |-> "done", kind |-> kind, text |-> t, voice_id |-> v, rate |-> ra,
                      status |-> 400, detail |-> "Text is required"])
       ELSE IF TextTooLong(t)
         THEN Set(r, [pc |-> "done", kind |-> kind, text |-> t, voice_id |-> v, rate |-> ra,
                      status |-> 400, detail |-> "Text too long (max 5000 chars)"])
       ELSE Set(r, [pc |-> "set_voice", kind |-> kind, text |-> t, voice_id |-> v, rate |-> ra])
  /\ UNCHANGED <<installed, engine, initialized, lock, files, started, lastRate, lastVoice>>

\* configure(): arrival
Configure(r) ==
  /\ CanArrive(r)
  /\ \E v \in VoiceIds, ra \in Rates :
       Set(r, [pc |-> "set_voice", kind |-> "configure", voice_id |-> v, rate |-> ra])
  /\ UNCHANGED <<installed, engine, initialized, lock, files, started, lastRate, lastVoice>>

\* TTSEngine.set_voice under the lock: no effect without an engine
set_voice(e, voice_id) == IF e # None THEN Some([e[1] EXCEPT !.voice = voice_id]) ELSE e

\* TTSEngine.set_rate under the lock: no effect without an engine
set_rate(e, rate) == IF e # None THEN Some([e[1] EXCEPT !.rate = rate]) ELSE e

LockFreeOrNot == TRUE
\* `with self._lock:` of set_voice / set_rate can be entered
LockFree == lock = 0

\* `if voice_id: tts_engine.set_voice(voice_id)`
SetVoice(r) ==
  /\ req[r].pc = "set_voice"
  /\ IF VoiceGiven(req[r].voice_id)
       THEN /\ LockFree
            /\ engine' = set_voice(engine, req[r].voice_id[1])
       ELSE UNCHANGED engine
  /\ lastVoice' = IF req[r].voice_id # None THEN r ELSE lastVoice
  /\ Set(r, [pc |-> "set_rate"])
  /\ UNCHANGED <<installed, initialized, lock, files, started, lastRate>>

\* `if rate: tts_engine.set_rate(rate)`; configure() returns after it
SetRate(r) ==
  /\ req[r].pc = "set_rate"
  /\ IF RateGiven(req[r].rate)
       THEN /\ LockFree
            /\ engine' = set_rate(engine, req[r].rate[1])
       ELSE UNCHANGED engine
  /\ lastRate' = IF req[r].rate # None THEN r ELSE lastRate
  /\ IF req[r].kind = "configure"
       THEN Set(r, [pc |-> "done", status |-> 200, detail |-> "Configuration updated"])
       ELSE Set(r, [pc |-> "acquire"])
  /\ UNCHANGED <<installed, initialized, lock, files, started, lastVoice>>

\* speak_to_file: take the lock, initialize lazily, create the temporary file
Acquire(r) ==
  /\ req[r].pc = "acquire"
  /\ lock = 0
  /\ lock' = r
  /\ engine' = EnsureEngine(engine, initialized, installed)
  /\ initialized' = (initialized \/ engine = None)
  /\ \E p \in FreshPaths :
       /\ files' = Put(files, p, [owner |-> r, data |-> None])
       /\ Set(r, [pc |-> "synth", path |-> p])
  /\ UNCHANGED <<installed, started, lastRate, lastVoice>>

\* what the engine writes for a text under its current properties
Audio(t, e) == Some([text |-> t, voice |-> e.voice, rate |-> e.rate])

\* the lock after leaving `with self._lock:` by return
Released(r) == 0
StillHeld(r) == r
\* the lock after leaving `with self._lock:` by an exception
ReleasedOnRaise(r) == 0

\* save_to_file + runAndWait return; the lock is released.  /speak answers
\* with the file, /speak/base64 goes on to read it.
SynthOk(r) ==
  /\ req[r].pc = "synth"
  /\ lock = r
  /\ LET audio == Audio(req[r].text, engine[1]) IN
       /\ files' = Put(files, req[r].path, [owner |-> r, data |-> audio])
       /\ IF req[r].kind = "speak"
            THEN Set(r, [pc |-> "done", status |-> 200, body |-> audio])
            ELSE Set(r, [pc |-> "read"])
  /\ lock' = Released(r)
  /\ UNCHANGED <<installed, engine, initialized, started, lastRate, lastVoice>>

\* save_to_file or runAndWait raises: the `with` block releases the lock and
\* the handler answers 500 with the exception's message.
SynthFail(r) ==
  /\ req[r].pc = "synth"
  /\ lock = r
  /\ lock' = ReleasedOnRaise(r)
  /\ Set(r, [pc |-> "done", status |-> 500, detail |-> "engine error"])
  /\ UNCHANGED <<installed, engine, initialized, files, started, lastRate, lastVoice>>

\* speak_base64: read the file, remove it, answer with its content
ReadAndRemove(r) ==
  /\ req[r].pc = "read"
  /\ Set(r, [pc |-> "done", status |-> 200, body |-> files[req[r].path].data])
  /\ files' = Remove(files, req[r].path)
  /\ UNCHANGED <<installed, engine, initialized, lock, started, lastRate, lastVoice>>

Take(s, n) == SubSeq(s, 1, IF Len(s) < n THEN Len(s) ELSE n)

\* TTSEngine.get_voices(): the list with the inferred gender
get_voices(voices) ==
  [i \in 1..Len(voices) |->
     [id |-> voices[i].id, name |-> voices[i].name, gender |-> Gender(voices[i].name)]]

\* /voices and /status: one call of get_voices under the lock
Voices(r) ==
  /\ CanArrive(r)
  /\ lock = 0
  /\ engine' = EnsureEngine(engine, initialized, installed)
  /\ initialized' = (initialized \/ engine = None)
  /\ \E kind \in {"voices", "status"} :
       Set(r, [pc |-> "done", kind |-> kind, status |-> 200,
               body |-> IF kind = "status" THEN Take(get_voices(installed), STATUS_HEAD)
                        ELSE get_voices(installed)])
  /\ UNCHANGED <<installed, lock, files, started, lastRate, lastVoice>>

Next ==
  \/ Lifespan
  \/ \E r \in Reqs : Speak(r)
  \/ \E r \in Reqs : Configure(r)
  \/ \E r \in Reqs : Voices(r)
  \/ \E r \in Reqs : SetVoice(r)
  \/ \E r \in Reqs : SetRate(r)
  \/ \E r \in Reqs : Acquire(r)
  \/ \E r \in Reqs : SynthOk(r)
  \/ \E r \in Reqs : SynthFail(r)
  \/ \E r \in Reqs : ReadAndRemove(r)

Spec == Init /\ [][Next]_vars

\* ------------------------------------------------------------ properties
Synthesizing(r) == req[r].pc = "synth"

\* C1: at most one synthesis (save_to_file + runAndWait) is in progress at any
\* time, and no step taken while a synthesis is in progress changes the
\* engine's voice or rate.
C1_OneSynthesis ==
  /\ [](Cardinality({r \in Reqs : Synthesizing(r)}) <= 1)
  /\ [][(\E r \in Reqs : Synthesizing(r)) => engine' = engine]_vars

\* a synthesis is in progress while another request waits to change the rate
C1_Witness ==
  \E r, q \in Reqs :
    /\ Synthesizing(r)
    /\ req[q].pc = "set_rate"
    /\ RateGiven(req[q].rate)
    /\ req[q].rate[1] # engine[1].rate

\* C2: while a speak request's synthesis runs, the engine's voice and rate
\* are the ones the request supplied.
C2_OverridesInForce ==
  \A r \in Reqs :
    Synthesizing(r) =>
      /\ req[r].voice_id # None => engine[1].voice = req[r].voice_id[1]
      /\ req[r].rate # None => engine[1].rate = req[r].rate[1]

\* The texts the validation is to reject: empty, all whitespace, or longer
\* than 5000 characters.
RejectedTexts ==
  {t \in TextIds :
     \/ \A i \in 1..Len(TextOf(t)) : TextOf(t)[i] \in Whitespace
     \/ Len(TextOf(t)) > 5000}

\* C3: a /speak or /speak/base64 request whose text is empty, all whitespace
\* or longer than 5000 characters is answered 400 on arrival, and that step
\* changes neither the engine, the lock nor the temporary files.
C3_Rejected ==
  [][\A r \in Reqs :
       (/\ req[r].pc = "idle"
        /\ req'[r].kind \in SpeakKinds
        /\ req'[r].text \in RejectedTexts)
       => /\ req'[r].pc = "done"
          /\ req'[r].status = 400
          /\ req'[r].path = 0
          /\ UNCHANGED <<engine, initialized, lock, files>>]_vars

\* a rejected request that carried a voice and a rate the engine does not have
C3_Witness ==
  \E r \in Reqs :
    /\ req[r].kind \in SpeakKinds
    /\ req[r].text = "over"
    /\ req[r].status = 400
    /\ VoiceGiven(req[r].voice_id) /\ RateGiven(req[r].rate)
    /\ engine # None
    /\ engine[1].rate # req[r].rate[1]
    /\ engine[1].voice # req[r].voice_id[1]

\* C4 as stated: a text whose trimmed length is within 1..5000 is never
\* answered 400, whatever its untrimmed length.
C4_TrimmedLength ==
  \A r \in Reqs :
    (req[r].kind \in SpeakKinds /\ StripLen[req[r].text] \in 1..5000)
      => req[r].status # 400

\* C4, amended: a text with at least one non-whitespace character and an
\* untrimmed length of at most 5000 is never answered 400, and the request
\* ends with 200 and audio unless the engine raised.
C4_Accepted ==
  \A r \in Reqs :
    (/\ req[r].kind \in SpeakKinds
     /\ StripLen[req[r].text] >= 1
     /\ TextLen[req[r].text] <= 5000)
      => /\ req[r].status # 400
         /\ (req[r].pc = "done" /\ req[r].detail # "engine error")
              => (req[r].status = 200 /\ req[r].body # None)

\* a text of exactly 5000 characters was synthesized and answered 200
C4_Witness ==
  \E r \in Reqs :
    /\ req[r].kind \in SpeakKinds
    /\ req[r].text = "max"
    /\ req[r].status = 200

\* C5: once a /configure with a rate has completed and no other request has
\* supplied a rate since, a /speak synthesis without a rate of its own runs
\* at the configured rate.
C5_ConfiguredRate ==
  \A r \in Reqs :
    (/\ Synthesizing(r)
     /\ req[r].kind = "speak"
     /\ req[r].rate = None
     /\ lastRate # 0
     /\ req[lastRate].kind = "configure"
     /\ req[lastRate].pc = "done")
      => engine[1].rate = req[lastRate].rate[1]

\* C6: once a /speak/base64 request has responded, no temporary file it
\* created exists.
C6_NoLeftover ==
  \A r \in Reqs :
    (req[r].kind = "base64" /\ req[r].pc = "done")
      => \A p \in DOMAIN files : files[p].owner # r

\* C7: the lock is held only by a request that is synthesizing, and after a
\* request answered 500 the lock is not held by it and the engine handle is
\* present and initialized.
C7_Usable ==
  /\ lock # 0 => Synthesizing(lock)
  /\ \A r \in Reqs :
       req[r].status = 500 => (lock # r /\ engine # None /\ initialized)

\* after a request failed with 500, another one holds the lock and synthesizes
C7_Witness ==
  \E r, q \in Reqs :
    /\ req[r].status = 500
    /\ req[r].detail = "engine error"
    /\ lock = q
    /\ Synthesizing(q)

\* a request that has a temporary file of its own at hand
HasOutput(r) ==
  \/ req[r].pc \in {"synth", "read"}
  \/ req[r].kind = "speak" /\ req[r].status = 200

\* C8: two speak requests never have the same temporary path at hand, the
\* audio answered to a request is the audio of its own text, and the file
\* served by /speak stays the one synthesized from that request's text.
C8_OwnOutput ==
  /\ \A r, q \in Reqs :
       (r # q /\ HasOutput(r) /\ HasOutput(q)) => req[r].path # req[q].path
  /\ \A r \in Reqs :
       (req[r].kind \in SpeakKinds /\ req[r].status = 200)
         => (req[r].body # None /\ req[r].body[1].text = req[r].text)
  /\ \A r \in Reqs :
       (req[r].kind = "speak" /\ req[r].status = 200)
         => /\ req[r].path \in DOMAIN files
            /\ files[req[r].path].data = req[r].body
  /\ \A r \in Reqs :
       req[r].pc = "read"
         => /\ req[r].path \in DOMAIN files
            /\ files[req[r].path].data # None
            /\ files[req[r].path].data[1].text = req[r].text

\* two requests with distinct texts overlap: one has synthesized and not yet
\* read its file while the other synthesizes
C8_Witness ==
  \E r, q \in Reqs :
    /\ req[r].pc = "read"
    /\ Synthesizing(q)
    /\ req[r].text # req[q].text

\* C9: after a speak request that passed validation and supplied a voice or
\* a rate, and until another request supplies one, the engine's voice / rate
\* is the supplied one.
C9_OverridesPersist ==
  \A r \in Reqs :
    (req[r].kind \in SpeakKinds /\ req[r].pc = "done" /\ req[r].status # 400)
      => /\ lastRate = r => (engine # None /\ engine[1].rate = req[r].rate[1])
         /\ lastVoice = r => (engine # None /\ engine[1].voice = req[r].voice_id[1])

\* C10: in every voice list answered by /voices and /status the gender is
\* "female" exactly for the names initialize() prefers ("female" or "zira"
\* in the lower-cased name), and "male" otherwise.
C10_Gender ==
  \A r \in Reqs :
    (req[r].kind \in {"voices", "status"} /\ req[r].pc = "done")
      => \A i \in DOMAIN req[r].body :
           req[r].body[i].gender =
             (IF PreferredVoice(req[r].body[i].name) THEN "female" ELSE "male")
====
